---- MODULE Spec2Model ----
(***************************************************************************)
(* A model of main.js of the 3D car visualiser: the part classification    *)
(* done in the model-load callback of initCar, the material applier        *)
(* updateMaterials, the lighting selector updateLighting and the chat      *)
(* command router handleCommand, together with the events that drive them  *)
(* (environment texture loaded, model loaded, dropdown changed, command    *)
(* submitted).                                                             *)
(*                                                                         *)
(* Strings are sequences of one-character strings, so that toLowerCase,    *)
(* String.prototype.includes, trim and the regular expressions of the      *)
(* source are computed character by character.                             *)
(***************************************************************************)
EXTENDS Integers, Sequences, FiniteSets, TLC

\* ---------------------------------------------------------------- bounds

\* A loaded scene graph has at most MaxNodes nodes (before the shadow plane
\* that initCar adds).
MaxNodes == 2

\* ------------------------------------------------------- string helpers

Range(s) ==
    {s[i] : i \in 1..Len(s)}

UpperCaseLetters ==
    <<"A", "B", "C", "D", "E", "F", "G", "H", "I", "J", "K", "L", "M",
      "N", "O", "P", "Q", "R", "S", "T", "U", "V", "W", "X", "Y", "Z">>

LowerCaseLetters ==
    <<"a", "b", "c", "d", "e", "f", "g", "h", "i", "j", "k", "l", "m",
      "n", "o", "p", "q", "r", "s", "t", "u", "v", "w", "x", "y", "z">>

Digits ==
    {"0", "1", "2", "3", "4", "5", "6", "7", "8", "9"}

\* String.prototype.toLowerCase, one character.
LowerChar(c) ==
    IF \E k \in 1..26 : UpperCaseLetters[k] = c
    THEN LowerCaseLetters[CHOOSE k \in 1..26 : UpperCaseLetters[k] = c]
    ELSE c

\* String.prototype.toLowerCase.
toLowerCase(s) ==
    [i \in 1..Len(s) |-> LowerChar(s[i])]

\* String.prototype.includes: pat occurs in s as a substring.
Includes(s, pat) ==
    \E i \in 0..(Len(s) - Len(pat)) : SubSeq(s, i + 1, i + Len(pat)) = pat

\* String.prototype.trim, for the blank: the text without its leading and
\* trailing blanks.
RECURSIVE Trim(_)
Trim(s) ==
    IF s = <<>> THEN s
    ELSE IF Head(s) = " " THEN Trim(Tail(s))
    ELSE IF s[Len(s)] = " " THEN Trim(SubSeq(s, 1, Len(s) - 1))
    ELSE s

\* The class \w of a JavaScript regular expression.
IsWordChar(c) ==
    \/ c \in Range(LowerCaseLetters)
    \/ c \in Range(UpperCaseLetters)
    \/ c \in Digits
    \/ c = "_"

\* The regular expression \bpat\b tested on s: an occurrence of pat with a
\* word boundary on both sides.
WordMatch(s, pat) ==
    \E i \in 0..(Len(s) - Len(pat)) :
        /\ SubSeq(s, i + 1, i + Len(pat)) = pat
        /\ (i = 0 \/ ~IsWordChar(s[i]))
        /\ (i + Len(pat) = Len(s) \/ ~IsWordChar(s[i + Len(pat) + 1]))

\* --------------------------------------------------- the classifier's names

bodyName == <<"b", "o", "d", "y">>
glassName == <<"g", "l", "a", "s", "s">>
paintWord == <<"p", "a", "i", "n", "t">>
rimWord == <<"r", "i", "m">>
trimName == <<"t", "r", "i", "m">>

\* /(\bbody\b|paint|carpaint|bodywork|car_body)/i
BodyPattern(n) ==
    \/ WordMatch(n, bodyName)
    \/ Includes(n, paintWord)
    \/ Includes(n, <<"c", "a", "r", "p", "a", "i", "n", "t">>)
    \/ Includes(n, <<"b", "o", "d", "y", "w", "o", "r", "k">>)
    \/ Includes(n, <<"c", "a", "r", "_", "b", "o", "d", "y">>)

\* The keywords of the fallback rule's exclusion pattern.
ExclusionKeywords ==
    { glassName, rimWord, trimName,
      <<"t", "i", "r", "e">>,
      <<"w", "h", "e", "e", "l">>,
      <<"l", "o", "g", "o">>,
      <<"e", "m", "b", "l", "e", "m">>,
      <<"i", "n", "t", "e", "r", "i", "o", "r">>,
      <<"s", "e", "a", "t">>,
      <<"l", "i", "g", "h", "t">>,
      <<"l", "a", "m", "p">> }

\* /(glass|rim|tire|wheel|trim|logo|emblem|interior|seat|light|lamp)/
ExclusionPattern(n) ==
    \E k \in ExclusionKeywords : Includes(n, k)

\* /(glass|windshield|window)/i
GlassPattern(n) ==
    \/ Includes(n, glassName)
    \/ Includes(n, <<"w", "i", "n", "d", "s", "h", "i", "e", "l", "d">>)
    \/ Includes(n, <<"w", "i", "n", "d", "o", "w">>)

\* ['rim_fl', 'rim_fr', 'rim_rr', 'rim_rl', 'trim']
RimNames ==
    << <<"r", "i", "m", "_", "f", "l">>,
       <<"r", "i", "m", "_", "f", "r">>,
       <<"r", "i", "m", "_", "r", "r">>,
       <<"r", "i", "m", "_", "r", "l">>,
       trimName >>

doorLeftName == <<"d", "o", "o", "r", "_", "l", "e", "f", "t">>
doorRightName == <<"d", "o", "o", "r", "_", "r", "i", "g", "h", "t">>

\* ------------------------------------------------------------ scene graph

\* A scene graph is the sequence of its nodes in traversal (depth-first,
\* parent first) order; a node is referred to by its place in it, and 0 is
\* undefined.  The plane that initCar adds under the model before it
\* collects the parts: a mesh with the default (empty) name, the last child.
shadow ==
    [name |-> <<>>, isMesh |-> TRUE]

\* Object3D.getObjectByName: the first node, in traversal order, with
\* exactly this name; 0 (undefined) when there is none.
getObjectByName(nodes, name) ==
    IF \E i \in 1..Len(nodes) : nodes[i].name = name
    THEN CHOOSE i \in 1..Len(nodes) :
            /\ nodes[i].name = name
            /\ \A j \in 1..(i - 1) : nodes[j].name # name
    ELSE 0

\* regex.test(n), for the two patterns collectMeshesByNamePattern is called
\* with.
regexTest(regex, n) ==
    CASE regex = "body" -> BodyPattern(n)
      [] regex = "glass" -> GlassPattern(n)

\* The meshes, in traversal order, whose lower-cased name the pattern
\* matches.
collectMeshesByNamePattern(nodes, regex) ==
    SelectSeq([i \in 1..Len(nodes) |-> i],
              LAMBDA i : nodes[i].isMesh /\ regexTest(regex, toLowerCase(nodes[i].name)))

uniquePush(arr, item) ==
    IF item # 0 /\ item \notin Range(arr) THEN Append(arr, item) ELSE arr

\* items.forEach((m) => uniquePush(arr, m))
RECURSIVE pushEach(_, _)
pushEach(arr, items) ==
    IF items = <<>> THEN arr
    ELSE pushEach(uniquePush(arr, Head(items)), Tail(items))

\* A looked-up node that is a mesh, else 0: the test `m && m.isMesh`.
meshOrNone(nodes, i) ==
    IF i # 0 /\ nodes[i].isMesh THEN i ELSE 0

\* A mutant of namedBody: the explicit name only.
namedBodyExplicitOnly(nodes) ==
    uniquePush(<<>>, meshOrNone(nodes, getObjectByName(nodes, bodyName)))

\* Steps 1 and 2 of the part collection: the explicit name, then the
\* common naming patterns.
namedBody(nodes) ==
    pushEach(uniquePush(<<>>, meshOrNone(nodes, getObjectByName(nodes, bodyName))),
             collectMeshesByNamePattern(nodes, "body"))

\* Step 3's traversal: the meshes whose lower-cased name the exclusion
\* pattern does not match.
fallbackBody(nodes) ==
    SelectSeq([i \in 1..Len(nodes) |-> i],
              LAMBDA i : /\ nodes[i].isMesh
                         /\ ~ExclusionPattern(toLowerCase(nodes[i].name)))

\* A mutant of fallbackRuns: step 3 runs whatever steps 1 and 2 found.
fallbackAlways(nodes) ==
    TRUE

\* Whether step 3 runs.
fallbackRuns(nodes) ==
    Len(namedBody(nodes)) = 0

collectBody(nodes) ==
    IF fallbackRuns(nodes)
    THEN pushEach(namedBody(nodes), fallbackBody(nodes))
    ELSE namedBody(nodes)

collectRims(nodes) ==
    pushEach(<<>>, [k \in 1..Len(RimNames) |->
                        meshOrNone(nodes, getObjectByName(nodes, RimNames[k]))])

collectGlass(nodes) ==
    uniquePush(pushEach(<<>>, collectMeshesByNamePattern(nodes, "glass")),
               meshOrNone(nodes, getObjectByName(nodes, glassName)))

collectDoors(nodes) ==
    uniquePush(uniquePush(<<>>, getObjectByName(nodes, doorLeftName)),
               getObjectByName(nodes, doorRightName))

\* The part collection of initCar's load callback over the model's nodes
\* (carParts starts empty and the callback runs once).
classifyParts(nodes) ==
    [body |-> collectBody(nodes),
     rims |-> collectRims(nodes),
     glass |-> collectGlass(nodes),
     doors |-> collectDoors(nodes)]

\* ------------------------------------------------------ material library

\* materialsLib.main, by name, in declaration order.
MainNames ==
    << <<"o", "r", "a", "n", "g", "e">>,
       <<"b", "l", "u", "e">>,
       <<"r", "e", "d">>,
       <<"b", "l", "a", "c", "k">>,
       <<"w", "h", "i", "t", "e">>,
       <<"m", "e", "t", "a", "l", "l", "i", "c">> >>

\* materialsLib.glass, by name, in declaration order.
GlassNames ==
    << <<"c", "l", "e", "a", "r">>,
       <<"s", "m", "o", "k", "e", "d">>,
       <<"b", "l", "u", "e">>,
       <<"t", "i", "n", "t", "e", "d">> >>

\* A material reference: an entry of the library (lib, index from 0), the
\* material the model file gave the node ("gltf"), or undefined.
MaterialRef(lib, index) ==
    [lib |-> lib, index |-> index]

UndefinedMaterial ==
    MaterialRef("undefined", -1)

\* materialsLib[lib][index]: undefined outside the array.
materialAt(lib, names, index) ==
    IF index \in 0..(Len(names) - 1) THEN MaterialRef(lib, index)
    ELSE UndefinedMaterial

\* The selectedIndex values set by initMaterialSelectionMenus.
InitialBodyIndex == 3
InitialRimIndex == 5
InitialGlassIndex == 0

\* Assigning select.value: the index (from 0) of the first option with that
\* value, -1 when no option has it.
selectValue(options, value) ==
    IF \E k \in 1..Len(options) : options[k] = value
    THEN (CHOOSE k \in 1..Len(options) :
            /\ options[k] = value
            /\ \A j \in 1..(k - 1) : options[j] # value) - 1
    ELSE -1

\* updateMaterials: body, then rims, then glass; a later assignment to the
\* same node overwrites an earlier one.
updateMaterials(parts, mats, b, r, g) ==
    LET afterBody == [i \in 1..Len(mats) |->
                        IF i \in Range(parts.body)
                        THEN materialAt("main", MainNames, b) ELSE mats[i]]
        afterRims == [i \in 1..Len(mats) |->
                        IF i \in Range(parts.rims)
                        THEN materialAt("main", MainNames, r) ELSE afterBody[i]]
    IN  [i \in 1..Len(mats) |->
            IF i \in Range(parts.glass)
            THEN materialAt("glass", GlassNames, g) ELSE afterRims[i]]

\* ---------------------------------------------------------------- lights

noneValue == <<"n", "o", "n", "e">>

\* allLights: the presets in key order, each with its lights.
allLights ==
    << [name |-> <<"d", "i", "r", "e", "c", "t", "i", "o", "n", "a", "l">>,
        lights |-> {"directional"}],
       [name |-> <<"a", "m", "b", "i", "e", "n", "t">>,
        lights |-> {"ambient"}],
       [name |-> <<"n", "i", "g", "h", "t">>,
        lights |-> {"night"}],
       [name |-> <<"d", "a", "r", "k">>,
        lights |-> {"dark"}],
       [name |-> <<"s", "h", "o", "w", "r", "o", "o", "m">>,
        lights |-> {"hemi", "point1", "point2"}] >>

\* Object.keys(allLights)
PresetNames ==
    [k \in 1..Len(allLights) |-> allLights[k].name]

\* The option values of the lighting dropdown of the page: the preset
\* names and the sentinel "none".
LightingOptions ==
    <<noneValue>> \o PresetNames

\* Assigning lightingSelect.value: the value when an option has it, else
\* the empty string.
setLightingValue(value) ==
    IF value \in Range(LightingOptions) THEN value ELSE <<>>

\* allLights[mode]: the lights of the preset, none when mode is no key.
lightsOf(mode) ==
    UNION {allLights[k].lights : k \in {j \in 1..Len(allLights) : allLights[j].name = mode}}

\* Object.values(allLights).flat()
everyLight ==
    UNION {allLights[k].lights : k \in 1..Len(allLights)}

\* A mutant of updateLighting: the lights that are on are left on.
updateLightingKeepsOn(vis, mode) ==
    vis \cup (IF mode # noneValue THEN lightsOf(mode) ELSE {})

\* updateLighting, on the set vis of visible lights: every light off, then
\* the lights of the selected preset on.
updateLighting(vis, mode) ==
    (vis \ everyLight) \cup (IF mode # noneValue THEN lightsOf(mode) ELSE {})

\* ------------------------------------------------------------- chat texts

openWord == <<"o", "p", "e", "n">>
doorWord == <<"d", "o", "o", "r">>
detailsWord == <<"d", "e", "t", "a", "i", "l", "s">>
lightWord == <<"l", "i", "g", "h", "t">>
lightingWord == <<"l", "i", "g", "h", "t", "i", "n", "g">>

\* A mutant of firstNamed: the last name, in the order of names, that the
\* text includes.
lastNamed(names, text) ==
    IF \E k \in 1..Len(names) : Includes(text, toLowerCase(names[k]))
    THEN CHOOSE k \in 1..Len(names) :
            /\ Includes(text, toLowerCase(names[k]))
            /\ \A j \in (k + 1)..Len(names) : ~Includes(text, toLowerCase(names[j]))
    ELSE 0

\* for (const x of names) if (text.includes(x.toLowerCase())) ...: the place
\* (from 1) of the first name, in the order of names, that the text
\* includes; 0 when it includes none.
firstNamed(names, text) ==
    IF \E k \in 1..Len(names) : Includes(text, toLowerCase(names[k]))
    THEN CHOOSE k \in 1..Len(names) :
            /\ Includes(text, toLowerCase(names[k]))
            /\ \A j \in 1..(k - 1) : ~Includes(text, toLowerCase(names[j]))
    ELSE 0

\* The keyword tests of handleCommand, on the lower-cased text.
doorTest(text) ==
    Includes(text, openWord) /\ Includes(text, doorWord)

bodyTest(text) ==
    Includes(text, bodyName) \/ Includes(text, paintWord)

rimTest(text) ==
    Includes(text, rimWord) \/ Includes(text, detailsWord)

glassTest(text) ==
    Includes(text, glassName)

\* A mutant of lightTest: the keyword test left out.
lightTestLeftOut(text) ==
    TRUE

lightTest(text) ==
    Includes(text, lightWord) \/ Includes(text, lightingWord)

Decision(intent, index) ==
    [intent |-> intent, index |-> index]

\* The if-chain of handleCommand on the lower-cased text, one operator for
\* each block and what follows it: which branch ends the call.  lib tells
\* whether materialsLib is defined: reading materialsLib.main or
\* materialsLib.glass while it is undefined throws a TypeError.

\* The lighting block, then the fallback.
lightBranch(text) ==
    IF lightTest(text) /\ firstNamed(PresetNames, text) # 0
    THEN Decision("light", firstNamed(PresetNames, text))
    ELSE Decision("none", 0)

\* The glass block; a loop that names nothing falls through.
glassBranch(text, lib) ==
    IF glassTest(text) /\ ~lib THEN Decision("TypeError", 0)
    ELSE IF glassTest(text) /\ firstNamed(GlassNames, text) # 0
    THEN Decision("glass", firstNamed(GlassNames, text))
    ELSE lightBranch(text)

\* A mutant of rimBranch: the block ends the call when its loop names
\* nothing.
rimBranchEnds(text, lib) ==
    IF rimTest(text) /\ ~lib THEN Decision("TypeError", 0)
    ELSE IF rimTest(text) /\ firstNamed(MainNames, text) # 0
    THEN Decision("rim", firstNamed(MainNames, text))
    ELSE IF rimTest(text) THEN Decision("none", 0)
    ELSE glassBranch(text, lib)

\* The rim block.
rimBranch(text, lib) ==
    IF rimTest(text) /\ ~lib THEN Decision("TypeError", 0)
    ELSE IF rimTest(text) /\ firstNamed(MainNames, text) # 0
    THEN Decision("rim", firstNamed(MainNames, text))
    ELSE glassBranch(text, lib)

\* The body block.
bodyBranch(text, lib) ==
    IF bodyTest(text) /\ ~lib THEN Decision("TypeError", 0)
    ELSE IF bodyTest(text) /\ firstNamed(MainNames, text) # 0
    THEN Decision("body", firstNamed(MainNames, text))
    ELSE rimBranch(text, lib)

\* The door block first: it calls openDoors, which the program never
\* defines, and the call throws a ReferenceError.
route(text, lib) ==
    IF doorTest(text) THEN Decision("ReferenceError", 0)
    ELSE bodyBranch(text, lib)

\* The texts submitted to the chat: the examples of the documentation and
\* texts that satisfy several keyword tests, one without a name, none.
Utterances ==
    {
      \* "Open the doors please"
      <<"O", "p", "e", "n", " ", "t", "h", "e", " ", "d", "o", "o", "r",
        "s", " ", "p", "l", "e", "a", "s", "e">>,
      \* "open door body red ambient light"
      <<"o", "p", "e", "n", " ", "d", "o", "o", "r", " ", "b", "o", "d",
        "y", " ", "r", "e", "d", " ", "a", "m", "b", "i", "e", "n", "t",
        " ", "l", "i", "g", "h", "t">>,
      \* "make body red"
      <<"m", "a", "k", "e", " ", "b", "o", "d", "y", " ", "r", "e", "d">>,
      \* "Paint it red or blue"
      <<"P", "a", "i", "n", "t", " ", "i", "t", " ", "r", "e", "d", " ",
        "o", "r", " ", "b", "l", "u", "e">>,
      \* "set rim to black"
      <<"s", "e", "t", " ", "r", "i", "m", " ", "t", "o", " ", "b", "l",
        "a", "c", "k">>,
      \* "rim and body white"
      <<"r", "i", "m", " ", "a", "n", "d", " ", "b", "o", "d", "y", " ",
        "w", "h", "i", "t", "e">>,
      \* "smoked glass"
      <<"s", "m", "o", "k", "e", "d", " ", "g", "l", "a", "s", "s">>,
      \* "body glass tinted"
      <<"b", "o", "d", "y", " ", "g", "l", "a", "s", "s", " ", "t", "i",
        "n", "t", "e", "d">>,
      \* "rim ambient light"
      <<"r", "i", "m", " ", "a", "m", "b", "i", "e", "n", "t", " ", "l",
        "i", "g", "h", "t">>,
      \* "turn on ambient light"
      <<"t", "u", "r", "n", " ", "o", "n", " ", "a", "m", "b", "i", "e",
        "n", "t", " ", "l", "i", "g", "h", "t">>,
      \* "showroom lighting"
      <<"s", "h", "o", "w", "r", "o", "o", "m", " ", "l", "i", "g", "h",
        "t", "i", "n", "g">>,
      \* "body"
      <<"b", "o", "d", "y">>,
      \* "banana"
      <<"b", "a", "n", "a", "n", "a">>,
      \* "red"
      <<"r", "e", "d">>,
      \* "night"
      <<"n", "i", "g", "h", "t">>,
      \* "glass blue"
      <<"g", "l", "a", "s", "s", " ", "b", "l", "u", "e">>,
      \* "rim glass blue"
      <<"r", "i", "m", " ", "g", "l", "a", "s", "s", " ", "b", "l", "u", "e">>,
      \* " "
      <<" ">> }

\* ------------------------------------------------------------ scene graphs

NodeNames ==
    { bodyName,
      <<"C", "a", "r", "_", "B", "o", "d", "y">>,
      <<"b", "o", "d", "y", "s", "h", "e", "l", "l">>,
      <<"b", "o", "d", "y", " ", "g", "l", "a", "s", "s">>,
      <<"c", "h", "a", "s", "s", "i", "s">>,
      <<"w", "i", "n", "d", "s", "h", "i", "e", "l", "d">>,
      glassName,
      <<"r", "i", "m", "_", "f", "l">>,
      trimName,
      <<"w", "h", "e", "e", "l">>,
      doorLeftName }

Nodes ==
    [name : NodeNames, isMesh : BOOLEAN]

\* The scene graphs a model file may hold: 1 to MaxNodes nodes.
SceneGraphs ==
    UNION {[1..n -> Nodes] : n \in 1..MaxNodes}

Mesh(name) ==
    [name |-> name, isMesh |-> TRUE]

Group(name) ==
    [name |-> name, isMesh |-> FALSE]

\* The model file of the whole program: nodes named the way the part
\* collection expects.
ShowroomModels ==
    { << Group(<<"c", "a", "r">>), Mesh(bodyName),
         Mesh(<<"r", "i", "m", "_", "f", "l">>), Mesh(trimName),
         Mesh(glassName), Mesh(doorLeftName) >> }

\* The parts of every model file: the model's nodes with the shadow plane
\* added, and the part collection over them.
loadedNodes(gltf) ==
    gltf \o <<shadow>>

partsTable ==
    [gltf \in ShowroomModels \cup SceneGraphs |-> classifyParts(loadedNodes(gltf))]

\* ------------------------------------------------------------- the state

VARIABLES
    pending,         \* the loads in flight: "texture", "model"
    materialsLib,    \* whether materialsLib is defined
    carModel,        \* the loaded model's nodes; <<>> while undefined
    carParts,        \* body, rims, glass, doors: sequences of nodes
    material,        \* material[i]: the material reference of node i
    bodyMatSelect,   \* selectedIndex of the body dropdown (-1: no option)
    rimMatSelect,    \* selectedIndex of the rim dropdown
    glassMatSelect,  \* selectedIndex of the glass dropdown
    lightingSelect,  \* value of the lighting dropdown
    visible,         \* the lights whose visible flag is set
    chatLog,         \* the last lines of the log: those of the last exchange
    lastError,       \* the exception that ended the last command, "" if none
    lastEvent        \* the handler that ran last: "init", "load", "change"
                     \* (a dropdown's) or "command"

vars ==
    <<pending, materialsLib, carModel, carParts, material, bodyMatSelect,
      rimMatSelect, glassMatSelect, lightingSelect, visible, chatLog,
      lastError, lastEvent>>

selection ==
    <<bodyMatSelect, rimMatSelect, glassMatSelect>>

\* A line of the conversation log.  The log only grows and nothing reads
\* it; chatLog keeps its end, the lines since the last user line (at first
\* the greeting).
Line(sender, text) ==
    [sender |-> sender, text |-> text]

\* addMessage(sender, text)
addMessage(log, sender, text) ==
    Append(log, Line(sender, text))

greetingText ==
    <<"Hi! Try \"make body red\" or \"ambient light\".">>

openingDoorsText ==
    <<"Opening doors.">>

notUnderstoodText ==
    <<"I didn't understand that. Try a command like \"make body red\" or \"ambient light\".">>

stillLoadingText ==
    <<"Car model is still loading. Try again in a moment.">>

bodySetText(name) ==
    <<"Body color set to ">> \o name \o <<".">>

rimSetText(name) ==
    <<"Rim color set to ">> \o name \o <<".">>

glassSetText(name) ==
    <<"Glass color set to ">> \o name \o <<".">>

lightingSetText(name) ==
    <<"Lighting set to ">> \o name \o <<".">>

\* The state when the module has run: init() has started the texture load
\* and hidden every light; the greeting is in the log.  The dropdowns of
\* the materials have no option yet; the lighting dropdown shows one of its
\* options.
Init ==
    /\ pending = {"texture"}
    /\ materialsLib = FALSE
    /\ carModel = <<>>
    /\ carParts = [body |-> <<>>, rims |-> <<>>, glass |-> <<>>, doors |-> <<>>]
    /\ material = <<>>
    /\ bodyMatSelect = -1
    /\ rimMatSelect = -1
    /\ glassMatSelect = -1
    /\ lightingSelect \in Range(LightingOptions)
    /\ visible = {}
    /\ chatLog = <<Line("Bot", greetingText)>>
    /\ lastError = ""
    /\ lastEvent = "init"

\* The cube texture's load callback: initCar() starts the model load,
\* initMaterials() builds the library, initMaterialSelectionMenus() fills
\* the dropdowns, selects the initial materials and listens to them.
TextureLoaded ==
    /\ "texture" \in pending
    /\ pending' = {"model"}
    /\ materialsLib' = TRUE
    /\ bodyMatSelect' = InitialBodyIndex
    /\ rimMatSelect' = InitialRimIndex
    /\ glassMatSelect' = InitialGlassIndex
    /\ lastEvent' = "load"
    /\ UNCHANGED <<carModel, carParts, material, lightingSelect, visible,
                   chatLog, lastError>>

\* The model's load callback of initCar on the loaded nodes: the shadow
\* plane is added under the model, the parts are collected, and
\* updateMaterials() applies the selected materials.
ModelLoaded(gltf) ==
    /\ "model" \in pending
    /\ pending' = {}
    /\ LET nodes == loadedNodes(gltf)
           parts == partsTable[gltf]
       IN  /\ carModel' = nodes
           /\ carParts' = parts
           /\ material' = updateMaterials(parts,
                              [i \in 1..Len(nodes) |-> MaterialRef("gltf", i)],
                              bodyMatSelect, rimMatSelect, glassMatSelect)
    /\ lastEvent' = "load"
    /\ UNCHANGED <<materialsLib, bodyMatSelect, rimMatSelect, glassMatSelect,
                   lightingSelect, visible, chatLog, lastError>>

\* A change of the body dropdown to option i: its listener is updateMaterials.
BodyMatChanged(i) ==
    /\ materialsLib
    /\ i # bodyMatSelect
    /\ bodyMatSelect' = i
    /\ material' = updateMaterials(carParts, material, i, rimMatSelect, glassMatSelect)
    /\ lastEvent' = "change"
    /\ UNCHANGED <<pending, materialsLib, carModel, carParts, rimMatSelect,
                   glassMatSelect, lightingSelect, visible, chatLog, lastError>>

RimMatChanged(i) ==
    /\ materialsLib
    /\ i # rimMatSelect
    /\ rimMatSelect' = i
    /\ material' = updateMaterials(carParts, material, bodyMatSelect, i, glassMatSelect)
    /\ lastEvent' = "change"
    /\ UNCHANGED <<pending, materialsLib, carModel, carParts, bodyMatSelect,
                   glassMatSelect, lightingSelect, visible, chatLog, lastError>>

GlassMatChanged(i) ==
    /\ materialsLib
    /\ i # glassMatSelect
    /\ glassMatSelect' = i
    /\ material' = updateMaterials(carParts, material, bodyMatSelect, rimMatSelect, i)
    /\ lastEvent' = "change"
    /\ UNCHANGED <<pending, materialsLib, carModel, carParts, bodyMatSelect,
                   rimMatSelect, lightingSelect, visible, chatLog, lastError>>

\* A change of the lighting dropdown to the option value: its listener is
\* updateLighting.
LightingChanged(value) ==
    /\ value # lightingSelect
    /\ lightingSelect' = value
    /\ visible' = updateLighting(visible, value)
    /\ lastEvent' = "change"
    /\ UNCHANGED <<pending, materialsLib, carModel, carParts, material,
                   bodyMatSelect, rimMatSelect, glassMatSelect, chatLog, lastError>>

\* The decision of handleCommand for every text, with and without the
\* material library.
routeTable ==
    [t \in Utterances |-> [lib \in BOOLEAN |-> route(toLowerCase(t), lib)]]

\* handleCommand(raw), called with the log as the caller left it.  A call
\* that throws ends there: nothing after the throwing expression runs.
handleCommand(raw, log) ==
    LET d == routeTable[raw][materialsLib]
    IN  /\ lastError' = IF d.intent \in {"ReferenceError", "TypeError"}
                        THEN d.intent ELSE ""
        /\ bodyMatSelect' = IF d.intent = "body"
                            THEN selectValue(MainNames, MainNames[d.index])
                            ELSE bodyMatSelect
        /\ rimMatSelect' = IF d.intent = "rim"
                           THEN selectValue(MainNames, MainNames[d.index])
                           ELSE rimMatSelect
        /\ glassMatSelect' = IF d.intent = "glass"
                             THEN selectValue(GlassNames, GlassNames[d.index])
                             ELSE glassMatSelect
        /\ material' = IF d.intent \in {"body", "rim", "glass"}
                       THEN updateMaterials(carParts, material, bodyMatSelect',
                                            rimMatSelect', glassMatSelect')
                       ELSE material
        /\ lightingSelect' = IF d.intent = "light"
                             THEN setLightingValue(PresetNames[d.index])
                             ELSE lightingSelect
        /\ visible' = IF d.intent = "light"
                      THEN updateLighting(visible, lightingSelect')
                      ELSE visible
        /\ chatLog' =
             CASE d.intent = "body" ->
                    addMessage(log, "Bot", bodySetText(MainNames[d.index]))
               [] d.intent = "rim" ->
                    addMessage(log, "Bot", rimSetText(MainNames[d.index]))
               [] d.intent = "glass" ->
                    addMessage(log, "Bot", glassSetText(GlassNames[d.index]))
               [] d.intent = "light" ->
                    addMessage(log, "Bot", lightingSetText(PresetNames[d.index]))
               [] d.intent = "none" ->
                    addMessage(log, "Bot", notUnderstoodText)
               [] OTHER -> log

\* sendBtn.onclick with the text t typed into the chat field: a text that
\* is not blank is logged and handled; a blank one is ignored.
Send(t) ==
    /\ IF Trim(t) # <<>>
       THEN /\ handleCommand(t, addMessage(<<>>, "You", t))
            /\ lastEvent' = "command"
       ELSE UNCHANGED <<bodyMatSelect, rimMatSelect, glassMatSelect, material,
                        lightingSelect, visible, chatLog, lastError, lastEvent>>
    /\ UNCHANGED <<pending, materialsLib, carModel, carParts>>

\* --------------------------------------------------------- specifications

\* The whole program, on the showroom model.
Next ==
    \/ TextureLoaded
    \/ \E gltf \in ShowroomModels : ModelLoaded(gltf)
    \/ \E i \in 0..(Len(MainNames) - 1) : BodyMatChanged(i)
    \/ \E i \in 0..(Len(MainNames) - 1) : RimMatChanged(i)
    \/ \E i \in 0..(Len(GlassNames) - 1) : GlassMatChanged(i)
    \/ \E value \in Range(LightingOptions) : LightingChanged(value)
    \/ \E t \in Utterances : Send(t)

Spec ==
    Init /\ [][Next]_vars

\* The part collection on every scene graph: the two loads.
NextClassify ==
    \/ TextureLoaded
    \/ \E gltf \in SceneGraphs : ModelLoaded(gltf)

SpecClassify ==
    Init /\ [][NextClassify]_vars

\* ----------------------------------------------------------------- claims

\* What the claims say of a chat text, read off the text itself.
lowered(t) ==
    toLowerCase(t)

saysDoor(t) ==
    Includes(lowered(t), openWord) /\ Includes(lowered(t), doorWord)

saysBody(t) ==
    Includes(lowered(t), bodyName) \/ Includes(lowered(t), paintWord)

saysRim(t) ==
    Includes(lowered(t), rimWord) \/ Includes(lowered(t), detailsWord)

saysGlass(t) ==
    Includes(lowered(t), glassName)

saysLight(t) ==
    Includes(lowered(t), lightWord) \/ Includes(lowered(t), lightingWord)

\* The places (from 1) of the names the text contains.
named(names, t) ==
    {k \in 1..Len(names) : Includes(lowered(t), names[k])}

Least(S) ==
    CHOOSE x \in S : \A y \in S : x <= y

\* The first satisfied keyword test of t is a material intent (body, rim or
\* glass) and t contains no material name of its category.
firstIsMaterialWithoutName(t) ==
    /\ ~saysDoor(t)
    /\ \/ saysBody(t) /\ named(MainNames, t) = {}
       \/ ~saysBody(t) /\ saysRim(t) /\ named(MainNames, t) = {}
       \/ ~saysBody(t) /\ ~saysRim(t) /\ saysGlass(t) /\ named(GlassNames, t) = {}

\* The first intent, in the router's order, whose keyword test t satisfies
\* and one of whose options t names; "none" when there is none.
Winner(t) ==
    IF saysBody(t) /\ named(MainNames, t) # {} THEN "body"
    ELSE IF saysRim(t) /\ named(MainNames, t) # {} THEN "rim"
    ELSE IF saysGlass(t) /\ named(GlassNames, t) # {} THEN "glass"
    ELSE IF saysLight(t) /\ named(PresetNames, t) # {} THEN "light"
    ELSE "none"

\* All of the above, for every text.
said ==
    [t \in Utterances |->
        [door |-> saysDoor(t), body |-> saysBody(t), rim |-> saysRim(t),
         glass |-> saysGlass(t), light |-> saysLight(t),
         main |-> named(MainNames, t), glassNames |-> named(GlassNames, t),
         presets |-> named(PresetNames, t),
         withoutName |-> firstIsMaterialWithoutName(t),
         winner |-> Winner(t)]]

\* The last exchange is the user's line t and the bot's line reply.
Exchange(log, t, reply) ==
    log = <<Line("You", t), Line("Bot", reply)>>

\* The text of the user's line at the head of the log.
text(log) ==
    log[1].text

\* The step is a command: handleCommand has run on the text of the user's
\* line at the head of the log.
CommandStep ==
    lastEvent' = "command"

\* The last event was a command.
Commanded ==
    lastEvent = "command"

lighting ==
    <<lightingSelect, visible>>

\* C1 (as claimed): before the material library and the body group are
\* populated, a command or a dropdown change reports the "still loading"
\* message, changes no selection, material or lighting state, and does not
\* throw.
C1_NotReadyReportsLoading ==
    [][ ((~materialsLib \/ carParts.body = <<>>)
         /\ lastEvent' \in {"change", "command"})
        => /\ lastError' = ""
           /\ selection' = selection
           /\ material' = material
           /\ lighting' = lighting
           /\ chatLog'[Len(chatLog')] = Line("Bot", stillLoadingText) ]_vars

\* C2 (as claimed), for commands handled once the library exists: when the
\* first satisfied keyword test is a material intent and the text has no
\* material name of its category, the outcome is NotUnderstood and no
\* selection or lighting state changes.
C2_FirstSatisfiedIntentEnds ==
    [][ (materialsLib /\ CommandStep /\ said[text(chatLog')].withoutName)
        => /\ Exchange(chatLog', text(chatLog'), notUnderstoodText)
           /\ selection' = selection
           /\ lighting' = lighting ]_vars

\* C2 (amended): a material intent whose keyword test is the first
\* satisfied but none of whose materials is named does not end the
\* routing: the later intents are tried in order, the first whose keyword
\* is in the text and one of whose options is named is applied and nothing
\* else changes (a lighting preset is selected in the lighting dropdown,
\* which shows it when it has that option and nothing otherwise, and the
\* lights of the value shown are the visible ones), and the outcome is
\* NotUnderstood with no change only when there is none.  While the
\* material library does not exist the command ends in a TypeError at that
\* material intent and changes nothing.
C2_LaterIntentsAreTried ==
    [][ (CommandStep /\ said[text(chatLog')].withoutName)
        => LET t == text(chatLog')
               is == said[t]
           IN  IF ~materialsLib
               THEN /\ lastError' = "TypeError"
                    /\ chatLog' = <<Line("You", t)>>
                    /\ selection' = selection
                    /\ lighting' = lighting
               ELSE /\ lastError' = ""
                    /\ is.winner \in {"glass", "light", "none"}
                    /\ is.winner = "glass" =>
                         /\ glassMatSelect' = Least(is.glassNames) - 1
                         /\ bodyMatSelect' = bodyMatSelect
                         /\ rimMatSelect' = rimMatSelect
                         /\ lighting' = lighting
                         /\ Exchange(chatLog', t,
                              glassSetText(GlassNames[Least(is.glassNames)]))
                    /\ is.winner = "light" =>
                         /\ lightingSelect' \in {PresetNames[Least(is.presets)], <<>>}
                         /\ visible' =
                              IF lightingSelect' = PresetNames[Least(is.presets)]
                              THEN allLights[Least(is.presets)].lights
                              ELSE {}
                         /\ selection' = selection
                         /\ Exchange(chatLog', t,
                              lightingSetText(PresetNames[Least(is.presets)]))
                    /\ is.winner = "none" =>
                         /\ selection' = selection
                         /\ lighting' = lighting
                         /\ Exchange(chatLog', t, notUnderstoodText) ]_vars

\* C2's case: a text whose first satisfied test is a material intent with
\* no material named, handled by the lighting intent that comes later.
C2_Witness ==
    /\ materialsLib
    /\ Commanded
    /\ said[text(chatLog)].withoutName
    /\ said[text(chatLog)].winner = "light"
    /\ Exchange(chatLog, text(chatLog),
         lightingSetText(PresetNames[Least(said[text(chatLog)].presets)]))
    /\ visible = allLights[Least(said[text(chatLog)].presets)].lights

\* C3 (as claimed): a text with "open" and "door" triggers the door action
\* and is answered by the bot's line that the doors are opening, whatever
\* else it contains, and no material or lighting selection changes.
C3_DoorCommandIsApplied ==
    [][ (CommandStep /\ said[text(chatLog')].door)
        => /\ Exchange(chatLog', text(chatLog'), openingDoorsText)
           /\ lastError' = ""
           /\ selection' = selection
           /\ lighting' = lighting ]_vars

\* C4: once the material library exists, a text without both "open" and
\* "door" that contains a main material name selects, with "body" or
\* "paint", the first main entry in declaration order it contains as body
\* material, leaving the rim and glass selections, and with "rim" or
\* "details" but neither "body" nor "paint" that entry as rim material,
\* leaving the body and glass selections; the outcome is Applied.
C4_FirstMainEntryInDeclarationOrder ==
    [][ (/\ materialsLib
         /\ CommandStep
         /\ ~said[text(chatLog')].door
         /\ said[text(chatLog')].main # {})
        => LET t == text(chatLog')
               is == said[t]
           IN  /\ is.body =>
                    /\ bodyMatSelect' = Least(is.main) - 1
                    /\ rimMatSelect' = rimMatSelect
                    /\ glassMatSelect' = glassMatSelect
                    /\ Exchange(chatLog', t, bodySetText(MainNames[Least(is.main)]))
               /\ (is.rim /\ ~is.body) =>
                    /\ rimMatSelect' = Least(is.main) - 1
                    /\ bodyMatSelect' = bodyMatSelect
                    /\ glassMatSelect' = glassMatSelect
                    /\ Exchange(chatLog', t, rimSetText(MainNames[Least(is.main)])) ]_vars

\* C4's case: a body command naming two main materials, the one declared
\* first selected.
C4_Witness ==
    /\ materialsLib
    /\ Commanded
    /\ ~said[text(chatLog)].door
    /\ said[text(chatLog)].body
    /\ Cardinality(said[text(chatLog)].main) >= 2
    /\ bodyMatSelect = Least(said[text(chatLog)].main) - 1
    /\ Exchange(chatLog, text(chatLog),
         bodySetText(MainNames[Least(said[text(chatLog)].main)]))

\* C5: the visible lights are none, or exactly the lights of the one
\* preset the lighting selector shows; with "none" selected no light is
\* visible.
C5_OnePresetVisible ==
    /\ \/ visible = {}
       \/ \E k \in 1..Len(allLights) :
            /\ lightingSelect = allLights[k].name
            /\ visible = allLights[k].lights
    /\ lightingSelect = noneValue => visible = {}

\* C5's case: a lighting command answered, the lights of its preset, more
\* than one, visible.
C5_Witness ==
    /\ Commanded
    /\ \E k \in 1..Len(allLights) :
        /\ Exchange(chatLog, text(chatLog), lightingSetText(allLights[k].name))
        /\ Cardinality(allLights[k].lights) > 1
        /\ visible = allLights[k].lights

\* C9: a text that satisfies none of the five keyword tests is answered
\* by the help message, and nothing else changes: the selections, every
\* node's material, the part groups and every light's visibility.
C9_UnknownTextChangesNothing ==
    [][ (/\ CommandStep
         /\ ~said[text(chatLog')].door /\ ~said[text(chatLog')].body
         /\ ~said[text(chatLog')].rim /\ ~said[text(chatLog')].glass
         /\ ~said[text(chatLog')].light)
        => /\ Exchange(chatLog', text(chatLog'), notUnderstoodText)
           /\ lastError' = ""
           /\ UNCHANGED <<selection, material, carParts, carModel, lighting,
                          materialsLib, pending>> ]_vars

\* C9's case: a text with a preset's name but no keyword, answered by the
\* help message with the model loaded.
C9_Witness ==
    /\ carModel # <<>>
    /\ Commanded
    /\ ~said[text(chatLog)].door /\ ~said[text(chatLog)].body
    /\ ~said[text(chatLog)].rim /\ ~said[text(chatLog)].glass
    /\ ~said[text(chatLog)].light
    /\ said[text(chatLog)].presets # {}
    /\ Exchange(chatLog, text(chatLog), notUnderstoodText)

\* The nodes of the loaded model.
loaded ==
    carModel # <<>>

nodeIds ==
    1..Len(carModel)

\* C6 (as claimed): no node is in more than one of the groups body, rims
\* and glass.
C6_GroupsDisjoint ==
    loaded =>
        /\ Range(carParts.body) \cap Range(carParts.rims) = {}
        /\ Range(carParts.body) \cap Range(carParts.glass) = {}
        /\ Range(carParts.rims) \cap Range(carParts.glass) = {}

\* C7 (as claimed): every node named exactly "body" is in the body group.
C7_NodeNamedBodyInBody ==
    loaded =>
        \A i \in nodeIds :
            carModel[i].name = bodyName => i \in Range(carParts.body)

\* C7 (amended): every mesh node named exactly "body" is in the body
\* group.
C7_MeshNamedBodyInBody ==
    loaded =>
        \A i \in nodeIds :
            (carModel[i].name = bodyName /\ carModel[i].isMesh)
            => i \in Range(carParts.body)

\* C7's case: two nodes named "body", the first not a mesh, the second a
\* mesh in the body group.
C7_Witness ==
    /\ loaded
    /\ \E i, j \in nodeIds :
        /\ i < j
        /\ carModel[i].name = bodyName /\ ~carModel[i].isMesh
        /\ carModel[j].name = bodyName /\ carModel[j].isMesh
        /\ j \in Range(carParts.body)

\* The meshes the exact-name and pattern rules take.
namedMeshes ==
    {i \in nodeIds : carModel[i].isMesh /\ BodyPattern(lowered(carModel[i].name))}

\* The meshes whose lower-cased name contains no exclusion keyword.
unexcludedMeshes ==
    {i \in nodeIds :
        /\ carModel[i].isMesh
        /\ \A k \in ExclusionKeywords : ~Includes(lowered(carModel[i].name), k)}

\* C8: the fallback rule runs exactly when the exact-name and pattern
\* rules found nothing; then the body group is the set of meshes whose
\* name has no exclusion keyword, and otherwise the body group is what
\* those two rules found.
C8_FallbackOnlyWhenNothingNamed ==
    loaded =>
        IF namedMeshes = {}
        THEN Range(carParts.body) = unexcludedMeshes
        ELSE Range(carParts.body) = namedMeshes

\* C8's case: the fallback rule ran on a model file with a mesh it took
\* and a mesh it left out.
C8_Witness ==
    /\ loaded
    /\ namedMeshes = {}
    /\ \E i \in 1..(Len(carModel) - 1) : i \in Range(carParts.body)
    /\ \E i \in nodeIds : carModel[i].isMesh /\ i \notin Range(carParts.body)

\* C10 (as claimed): once the model is loaded, every node of the body
\* group carries the selected body material, every node of the rims group
\* the selected rim material and every node of the glass group the
\* selected glass material.
C10_PartsCarrySelection ==
    loaded =>
        /\ \A i \in Range(carParts.body) :
             material[i] = MaterialRef("main", bodyMatSelect)
        /\ \A i \in Range(carParts.rims) :
             material[i] = MaterialRef("main", rimMatSelect)
        /\ \A i \in Range(carParts.glass) :
             material[i] = MaterialRef("glass", glassMatSelect)

====
